---- MODULE Spec2Model ----
(***************************************************************************)
(* A model of the Blender "Notes" addon (src/__init__.py): the ordered     *)
(* collection of notes with its active index, the four list operators      *)
(* (add / next / previous / delete), the text edit made through the panel, *)
(* the capture and restoration of the view context, and the status-bar    *)
(* summary drawn by draw_note_status.                                      *)
(*                                                                         *)
(* Strings the code slices, measures or formats (note text, creation date, *)
(* status-bar label) are sequences of one-character strings; strings the   *)
(* code only compares (camera_name, view_type, view_perspective) are TLA+  *)
(* strings.  Python's None for scene.camera is the value NoCamera.         *)
(***************************************************************************)
EXTENDS Integers, Sequences, FiniteSets, TLC

\* ------------------------------------------------------------- bounds
\* Most notes a store holds under Spec and under SpecView.
MaxNotes == 3
MaxViewNotes == 2
\* Most notes a store holds under SpecSummary (enough for two-digit version labels).
MaxSummaryNotes == 11
\* The longest note text SpecSummary generates around the truncation budget, and the
\* length of its one long text.
MaxTextLen == 78
ExampleLen == 100

\* ------------------------------------------------------------- the host's values
NoCamera == "<no camera>"
ObjectNames == {"Cam", "None"}
ObjectTypes == {"ABSENT", "CAMERA", "MESH"}
Perspectives == {"PERSP", "CAMERA"}
\* Viewport poses: a rotation quaternion and a distance, both values a 32-bit
\* float holds exactly (scaled to integers), so storing and reading back is exact.
Poses == { [rot |-> <<1, 0, 0, 0>>, dist |-> 10], [rot |-> <<0, 1, 0, 0>>, dist |-> 25] }
\* Timeline frames the scene is at, and wall-clock instants notes are added at.
Frames == {1, 24}
Times == { [year |-> 2026, month |-> 11, day |-> 2, hour |-> 9, minute |-> 5],
           [year |-> 2026, month |-> 11, day |-> 2, hour |-> 23, minute |-> 59] }

\* ------------------------------------------------------------- text helpers
Digit(d) == CASE d = 0 -> "0" [] d = 1 -> "1" [] d = 2 -> "2" [] d = 3 -> "3" [] d = 4 -> "4"
              [] d = 5 -> "5" [] d = 6 -> "6" [] d = 7 -> "7" [] d = 8 -> "8" [] d = 9 -> "9"

\* str(n) of a non-negative integer, as f"{n}" formats it.
RECURSIVE ToDecimal(_)
ToDecimal(n) == IF n < 10 THEN <<Digit(n)>> ELSE ToDecimal(n \div 10) \o <<Digit(n % 10)>>

\* A field zero-padded to `width` digits, as strftime's %Y %m %d %H %M do.
RECURSIVE ZeroPad(_, _)
ZeroPad(n, width) == IF width <= 1 THEN ToDecimal(n)
                     ELSE IF Len(ToDecimal(n)) >= width THEN ToDecimal(n)
                     ELSE <<"0">> \o ZeroPad(n, width - 1)

\* datetime.strftime("%Y-%m-%d %H:%M")
strftime(t) == ZeroPad(t.year, 4) \o <<"-">> \o ZeroPad(t.month, 2) \o <<"-">> \o ZeroPad(t.day, 2)
               \o <<" ">> \o ZeroPad(t.hour, 2) \o <<":">> \o ZeroPad(t.minute, 2)

\* str.replace('\n', ' ')
ReplaceNewlines(s) == [i \in 1..Len(s) |-> IF s[i] = "\n" THEN " " ELSE s[i]]

\* s[:n] for n >= 0
Slice(s, n) == SubSeq(s, 1, IF n < Len(s) THEN n ELSE Len(s))

\* A remove that drops the last element whatever the index.
RemoveAt_DropsLast(s, i) == SubSeq(s, 1, Len(s) - 1)

\* collection.remove(index)
RemoveAt(s, i) == [k \in 1..(Len(s) - 1) |-> IF k < i THEN s[k] ELSE s[k + 1]]

\* ------------------------------------------------------------- state
VARIABLES
    notes,              \* notes_properties.notes: Seq of NoteItem
    active_note_index,  \* notes_properties.active_note_index (0-based)
    frame_current,      \* scene.frame_current
    camera,             \* scene.camera: an object's name, or NoCamera
    objects,            \* bpy.data.objects: name -> type ("ABSENT": no such object)
    has_view3d,         \* whether context.screen.areas holds a VIEW_3D area
    view_perspective,   \* region_3d.view_perspective of the first VIEW_3D area
    view_rotation,      \* region_3d.view_rotation
    view_distance,      \* region_3d.view_distance
    statusbar,          \* the labels draw_note_status put in the status bar
    ret                 \* the last operator run (see Returned)

vars == <<notes, active_note_index, frame_current, camera, objects, has_view3d,
          view_perspective, view_rotation, view_distance, statusbar, ret>>

store == <<notes, active_note_index>>
scene == <<frame_current, camera>>
viewport == <<view_perspective, view_rotation, view_distance>>
host == <<objects, has_view3d>>

\* A NoteItem as notes.add() creates it: every property at its default.
NoteItem == [note |-> <<>>, creation_date |-> <<>>, camera_name |-> "", frame_number |-> 0,
             view_type |-> "", view_rotation |-> <<0, 0, 0, 0>>, view_distance |-> 0]

\* ------------------------------------------------------------- status bar
V(n) == <<"V">> \o ToDecimal(n)

total_max_length == 80

\* context.scene.notes_properties
notes_properties == [notes |-> notes, active_note_index |-> active_note_index]

\* A truncation test that also cuts a text of exactly the budget's length.
note_info_CutsAtBudget(last_note_index, last_note_text) ==
    IF last_note_text # <<>>
    THEN LET version_prefix == V(last_note_index + 1) \o <<" ", "-", " ">>
             diff == total_max_length - Len(version_prefix)
             note_max_length == IF diff < 0 THEN 0 ELSE diff
             display_text ==
                 IF Len(last_note_text) >= note_max_length
                 THEN Slice(ReplaceNewlines(last_note_text), note_max_length)
                          \o <<".", ".", ".">>
                 ELSE ReplaceNewlines(last_note_text)
         IN  version_prefix \o display_text
    ELSE V(last_note_index + 1)

\* The label draw_note_status builds for the note at last_note_index with this text.
note_info(last_note_index, last_note_text) ==
    IF last_note_text # <<>>
    THEN LET version_prefix == V(last_note_index + 1) \o <<" ", "-", " ">>
             diff == total_max_length - Len(version_prefix)
             note_max_length == IF diff < 0 THEN 0 ELSE diff
             display_text ==
                 IF Len(last_note_text) > note_max_length
                 THEN Slice(ReplaceNewlines(last_note_text), note_max_length)
                          \o <<".", ".", ".">>
                 ELSE ReplaceNewlines(last_note_text)
         IN  version_prefix \o display_text
    ELSE V(last_note_index + 1)

\* A status bar that shows the active note, not the last one.
draw_note_status_ShowsActive(notes_props) ==
    IF Len(notes_props.notes) > 0
    THEN LET index == notes_props.active_note_index
         IN  << note_info(index, notes_props.notes[index + 1].note) >>
    ELSE << >>

\* draw_note_status: the labels added to the status-bar layout (none when there are no notes).
draw_note_status(notes_props) ==
    IF Len(notes_props.notes) > 0
    THEN LET last_note_index == Len(notes_props.notes) - 1
             last_note_text == notes_props.notes[last_note_index + 1].note
         IN  << note_info(last_note_index, last_note_text) >>
    ELSE << >>

\* update_status_bar tags the status bar for redraw; the host redraws it, calling
\* draw_note_status, before it handles the next event.
update_status_bar(notes_props) == draw_note_status(notes_props)

\* IntProperty(min=0): an assignment below the minimum is clamped to it.
SetIndex(v) == IF v < 0 THEN 0 ELSE v

\* The `before` of a behaviour that does not record the run before the last one.
NotRecorded == [op |-> "-", from |-> 0]

\* What is recorded of an operator run: its bl_idname, return value and report, the
\* active index it started from, and the same two facts of the run before it.
Returned(op, result, report) ==
    [op |-> op, result |-> result, report |-> report, from |-> active_note_index,
     props |-> <<>>,
     before |-> IF ret.before = NotRecorded THEN NotRecorded
                ELSE [op |-> ret.op, from |-> ret.from]]

\* The same of an operator run of which these operator properties (self.camera_name)
\* are recorded too.
ReturnedWith(props, op, result, report) == [Returned(op, result, report) EXCEPT !.props = props]

NothingRun == [op |-> "", result |-> "", report |-> "", from |-> 0, props |-> <<>>,
               before |-> [op |-> "", from |-> 0]]

\* ------------------------------------------------------------- operators
\* A capture that stores a custom view whenever there is a viewport, camera view or not.
CaptureView_IgnoresPerspective(n) ==
    IF has_view3d
    THEN [n EXCEPT !.view_type = "VIEW",
                   !.view_rotation = view_rotation,
                   !.view_distance = view_distance,
                   !.camera_name = ""]
    ELSE [n EXCEPT !.view_type = "CAMERA",
                   !.camera_name = IF camera # NoCamera THEN camera ELSE "None"]

\* The view information WM_OT_add_note.execute captures into the new note.
CaptureView(n) ==
    IF has_view3d /\ view_perspective = "CAMERA"
    THEN [n EXCEPT !.view_type = "CAMERA",
                   !.camera_name = IF camera # NoCamera THEN camera ELSE "None"]
    ELSE IF has_view3d
    THEN [n EXCEPT !.view_type = "VIEW",
                   !.view_rotation = view_rotation,
                   !.view_distance = view_distance,
                   !.camera_name = ""]
    ELSE [n EXCEPT !.view_type = "CAMERA",
                   !.camera_name = IF camera # NoCamera THEN camera ELSE "None"]

\* The note WM_OT_add_note.execute fills in at wall-clock time `now`.
new_note(now) ==
    LET dated == [NoteItem EXCEPT !.creation_date = strftime(now)]
    IN  [CaptureView(dated) EXCEPT !.frame_number = frame_current]

\* An add that leaves the active index where it was.
WM_OT_add_note_KeepsIndex(now, cap) ==
    /\ Len(notes) < cap
    /\ notes' = Append(notes, new_note(now))
    /\ ret' = Returned("notes.add_note", "FINISHED", "")
    /\ UNCHANGED <<active_note_index, scene, viewport, host>>
    /\ statusbar' = update_status_bar(notes_properties')

\* An add that captures the frame into every note, not only the new one.
WM_OT_add_note_RestampsAll(now, cap) ==
    /\ Len(notes) < cap
    /\ notes' = [k \in 1..(Len(notes) + 1) |->
                    IF k <= Len(notes) THEN [notes[k] EXCEPT !.frame_number = frame_current]
                    ELSE new_note(now)]
    /\ active_note_index' = SetIndex(Len(notes') - 1)
    /\ ret' = Returned("notes.add_note", "FINISHED", "")
    /\ UNCHANGED <<scene, viewport, host>>
    /\ statusbar' = update_status_bar(notes_properties')

\* WM_OT_add_note.execute, run at wall-clock time `now`; `cap` bounds the store.
WM_OT_add_note(now, cap) ==
    /\ Len(notes) < cap
    /\ notes' = Append(notes, new_note(now))
    /\ active_note_index' = SetIndex(Len(notes') - 1)
    /\ ret' = Returned("notes.add_note", "FINISHED", "")
    /\ UNCHANGED <<scene, viewport, host>>
    /\ statusbar' = update_status_bar(notes_properties')

\* The type of bpy.data.objects.get(name), "ABSENT" when it returns None.
objects_get(name) == IF name \in DOMAIN objects THEN objects[name] ELSE "ABSENT"

\* A restore that brings back a custom view's rotation but not its distance.
restore_note_context_KeepsDistance(note) ==
    /\ frame_current' = note.frame_number
    /\ IF ~has_view3d
       THEN UNCHANGED <<camera, viewport>>
       ELSE IF note.view_type = "CAMERA"
       THEN IF objects_get(note.camera_name) = "CAMERA"
            THEN /\ camera' = note.camera_name
                 /\ view_perspective' = "CAMERA"
                 /\ UNCHANGED <<view_rotation, view_distance>>
            ELSE UNCHANGED <<camera, viewport>>
       ELSE IF note.view_type = "VIEW"
       THEN /\ view_perspective' = "PERSP"
            /\ view_rotation' = note.view_rotation
            /\ UNCHANGED <<view_distance, camera>>
       ELSE UNCHANGED <<camera, viewport>>

\* A restore that makes the note's camera the scene camera without entering its view.
restore_note_context_KeepsPerspective(note) ==
    /\ frame_current' = note.frame_number
    /\ IF ~has_view3d
       THEN UNCHANGED <<camera, viewport>>
       ELSE IF note.view_type = "CAMERA"
       THEN IF objects_get(note.camera_name) = "CAMERA"
            THEN /\ camera' = note.camera_name
                 /\ UNCHANGED viewport
            ELSE UNCHANGED <<camera, viewport>>
       ELSE IF note.view_type = "VIEW"
       THEN /\ view_perspective' = "PERSP"
            /\ view_rotation' = note.view_rotation
            /\ view_distance' = note.view_distance
            /\ UNCHANGED camera
       ELSE UNCHANGED <<camera, viewport>>

\* A restore that looks for the 3D viewport first and sets the frame only if there is one.
restore_note_context_FrameNeedsView(note) ==
    IF ~has_view3d
    THEN UNCHANGED <<frame_current, camera, viewport>>
    ELSE /\ frame_current' = note.frame_number
         /\ IF note.view_type = "CAMERA"
            THEN IF objects_get(note.camera_name) = "CAMERA"
                 THEN /\ camera' = note.camera_name
                      /\ view_perspective' = "CAMERA"
                      /\ UNCHANGED <<view_rotation, view_distance>>
                 ELSE UNCHANGED <<camera, viewport>>
            ELSE IF note.view_type = "VIEW"
            THEN /\ view_perspective' = "PERSP"
                 /\ view_rotation' = note.view_rotation
                 /\ view_distance' = note.view_distance
                 /\ UNCHANGED camera
            ELSE UNCHANGED <<camera, viewport>>

\* restore_note_context: the scene frame, then the camera or the custom view of `note`.
restore_note_context(note) ==
    /\ frame_current' = note.frame_number
    /\ IF ~has_view3d
       THEN UNCHANGED <<camera, viewport>>
       ELSE IF note.view_type = "CAMERA"
       THEN IF objects_get(note.camera_name) = "CAMERA"
            THEN /\ camera' = note.camera_name
                 /\ view_perspective' = "CAMERA"
                 /\ UNCHANGED <<view_rotation, view_distance>>
            ELSE UNCHANGED <<camera, viewport>>
       ELSE IF note.view_type = "VIEW"
       THEN /\ view_perspective' = "PERSP"
            /\ view_rotation' = note.view_rotation
            /\ view_distance' = note.view_distance
            /\ UNCHANGED camera
       ELSE UNCHANGED <<camera, viewport>>

\* A next that wraps around from the last note to the first.
WM_OT_next_note_Wraps ==
    /\ UNCHANGED <<notes, host>>
    /\ IF Len(notes) > 0
       THEN /\ active_note_index' = SetIndex((active_note_index + 1) % Len(notes))
            /\ restore_note_context(notes[active_note_index' + 1])
            /\ statusbar' = update_status_bar(notes_properties')
       ELSE UNCHANGED <<active_note_index, scene, viewport, statusbar>>
    /\ ret' = Returned("notes.next_note", "FINISHED", "")

\* A next that applies the active note's snapshot again when it cannot move.
WM_OT_next_note_ReappliesAtBoundary ==
    /\ UNCHANGED <<notes, host>>
    /\ IF active_note_index < Len(notes) - 1
       THEN /\ active_note_index' = SetIndex(active_note_index + 1)
            /\ restore_note_context(notes[active_note_index' + 1])
            /\ statusbar' = update_status_bar(notes_properties')
       ELSE IF Len(notes) > 0
       THEN /\ restore_note_context(notes[active_note_index + 1])
            /\ UNCHANGED <<active_note_index, statusbar>>
       ELSE UNCHANGED <<active_note_index, scene, viewport, statusbar>>
    /\ ret' = Returned("notes.next_note", "FINISHED", "")

\* WM_OT_next_note.execute
WM_OT_next_note ==
    /\ UNCHANGED <<notes, host>>
    /\ IF active_note_index < Len(notes) - 1
       THEN /\ active_note_index' = SetIndex(active_note_index + 1)
            /\ restore_note_context(notes[active_note_index' + 1])
            /\ statusbar' = update_status_bar(notes_properties')
       ELSE UNCHANGED <<active_note_index, scene, viewport, statusbar>>
    /\ ret' = Returned("notes.next_note", "FINISHED", "")

\* A previous that goes back to the first note.
WM_OT_previous_note_ToFirst ==
    /\ UNCHANGED <<notes, host>>
    /\ IF active_note_index > 0
       THEN /\ active_note_index' = SetIndex(0)
            /\ restore_note_context(notes[active_note_index' + 1])
            /\ statusbar' = update_status_bar(notes_properties')
       ELSE UNCHANGED <<active_note_index, scene, viewport, statusbar>>
    /\ ret' = Returned("notes.previous_note", "FINISHED", "")

\* WM_OT_previous_note.execute
WM_OT_previous_note ==
    /\ UNCHANGED <<notes, host>>
    /\ IF active_note_index > 0
       THEN /\ active_note_index' = SetIndex(active_note_index - 1)
            /\ restore_note_context(notes[active_note_index' + 1])
            /\ statusbar' = update_status_bar(notes_properties')
       ELSE UNCHANGED <<active_note_index, scene, viewport, statusbar>>
    /\ ret' = Returned("notes.previous_note", "FINISHED", "")

\* An adjustment that never clamps, and one that always steps back.
AdjustedIndex_Unclamped(index, n) == index
AdjustedIndex_StepsBack(index, n) == SetIndex(index - 1)

\* The active index WM_OT_delete_note.execute leaves, `n` notes remaining.
AdjustedIndex(index, n) ==
    IF index >= n /\ n > 0 THEN SetIndex(n - 1) ELSE index

\* A delete without poll: on an empty store remove() finds nothing to remove.
WM_OT_delete_note_NoPoll ==
    /\ LET index == active_note_index
       IN  /\ notes' = IF Len(notes) > 0 THEN RemoveAt(notes, index + 1) ELSE notes
           /\ active_note_index' = AdjustedIndex(index, Len(notes'))
    /\ ret' = Returned("notes.delete_note", "FINISHED", "")
    /\ UNCHANGED <<scene, viewport, host>>
    /\ statusbar' = update_status_bar(notes_properties')

\* A delete that restores the context of the note active after it.
WM_OT_delete_note_RestoresContext ==
    /\ Len(notes) > 0
    /\ LET index == active_note_index
       IN  /\ notes' = RemoveAt(notes, index + 1)
           /\ active_note_index' = AdjustedIndex(index, Len(notes'))
    /\ IF Len(notes') > 0
       THEN restore_note_context(notes'[active_note_index' + 1])
       ELSE UNCHANGED <<scene, viewport>>
    /\ ret' = Returned("notes.delete_note", "FINISHED", "")
    /\ UNCHANGED host
    /\ statusbar' = update_status_bar(notes_properties')

\* WM_OT_delete_note: poll, then execute.
WM_OT_delete_note ==
    /\ Len(notes) > 0
    /\ LET index == active_note_index
       IN  /\ notes' = RemoveAt(notes, index + 1)
           /\ active_note_index' = AdjustedIndex(index, Len(notes'))
    /\ ret' = Returned("notes.delete_note", "FINISHED", "")
    /\ UNCHANGED <<scene, viewport, host>>
    /\ statusbar' = update_status_bar(notes_properties')

\* WM_OT_goto_frame.execute, its `frame` property set.
WM_OT_goto_frame(frame) ==
    /\ frame_current' = frame
    /\ ret' = Returned("notes.goto_frame", "FINISHED", "")
    /\ UNCHANGED <<store, camera, viewport, host, statusbar>>

\* A set-camera that takes any object of that name, camera or not.
WM_OT_set_active_camera_AnyObject(camera_name) ==
    IF objects_get(camera_name) # "ABSENT"
    THEN /\ camera' = camera_name
         /\ view_perspective' = IF has_view3d THEN "CAMERA" ELSE view_perspective
         /\ ret' = ReturnedWith(<<camera_name>>, "notes.set_camera", "FINISHED", "")
         /\ UNCHANGED <<store, frame_current, view_rotation, view_distance, host, statusbar>>
    ELSE /\ ret' = ReturnedWith(<<camera_name>>, "notes.set_camera", "CANCELLED", "WARNING")
         /\ UNCHANGED <<store, scene, viewport, host, statusbar>>

\* A set-camera that cancels without reporting anything.
WM_OT_set_active_camera_Silent(camera_name) ==
    IF objects_get(camera_name) = "CAMERA"
    THEN /\ camera' = camera_name
         /\ view_perspective' = IF has_view3d THEN "CAMERA" ELSE view_perspective
         /\ ret' = ReturnedWith(<<camera_name>>, "notes.set_camera", "FINISHED", "")
         /\ UNCHANGED <<store, frame_current, view_rotation, view_distance, host, statusbar>>
    ELSE /\ ret' = ReturnedWith(<<camera_name>>, "notes.set_camera", "CANCELLED", "")
         /\ UNCHANGED <<store, scene, viewport, host, statusbar>>

\* WM_OT_set_active_camera.execute, its `camera_name` property set.
WM_OT_set_active_camera(camera_name) ==
    IF objects_get(camera_name) = "CAMERA"
    THEN /\ camera' = camera_name
         /\ view_perspective' = IF has_view3d THEN "CAMERA" ELSE view_perspective
         /\ ret' = ReturnedWith(<<camera_name>>, "notes.set_camera", "FINISHED", "")
         /\ UNCHANGED <<store, frame_current, view_rotation, view_distance, host, statusbar>>
    ELSE /\ ret' = ReturnedWith(<<camera_name>>, "notes.set_camera", "CANCELLED", "WARNING")
         /\ UNCHANGED <<store, scene, viewport, host, statusbar>>

\* WM_OT_restore_view.execute, its `rotation` and `distance` properties set.
WM_OT_restore_view(rotation, distance) ==
    /\ IF has_view3d
       THEN /\ view_perspective' = "PERSP"
            /\ view_rotation' = rotation
            /\ view_distance' = distance
       ELSE UNCHANGED viewport
    /\ ret' = Returned("notes.restore_view", "FINISHED", "")
    /\ UNCHANGED <<store, scene, host, statusbar>>

\* The panel's buttons for the active note (NOTES_PT_main_panel.draw): go to its frame,
\* and, when it holds a custom view, restore that view.
PanelGotoFrame ==
    /\ Len(notes) > 0
    /\ WM_OT_goto_frame(notes[active_note_index + 1].frame_number)

PanelRestoreView ==
    /\ Len(notes) > 0
    /\ notes[active_note_index + 1].view_type = "VIEW"
    /\ WM_OT_restore_view(notes[active_note_index + 1].view_rotation,
                          notes[active_note_index + 1].view_distance)

\* An edit that writes the text into a fresh note item.
EditNote_ResetsNote(text) ==
    /\ Len(notes) > 0
    /\ notes' = [notes EXCEPT ![active_note_index + 1] = [NoteItem EXCEPT !.note = text]]
    /\ ret' = Returned("note", "", "")
    /\ UNCHANGED <<active_note_index, scene, viewport, host>>
    /\ statusbar' = update_status_bar(notes_properties')

\* The panel's text box (NOTES_PT_main_panel.draw): the user sets the `note`
\* property of the active note, whose update callback is update_status_bar.
EditNote(text) ==
    /\ Len(notes) > 0
    /\ notes' = [notes EXCEPT ![active_note_index + 1].note = text]
    /\ ret' = Returned("note", "", "")
    /\ UNCHANGED <<active_note_index, scene, viewport, host>>
    /\ statusbar' = update_status_bar(notes_properties')

\* ------------------------------------------------------------- the store, in a fixed scene
\* Note texts the user types under Spec.
Texts == { <<>>, <<"a">>, <<"b", "\n", "c">> }

Init ==
    /\ notes = <<>>
    /\ active_note_index = 0
    /\ frame_current \in Frames
    /\ objects = [n \in ObjectNames |-> IF n = "Cam" THEN "CAMERA" ELSE "ABSENT"]
    /\ camera \in {NoCamera, "Cam"}
    /\ has_view3d \in BOOLEAN
    /\ view_perspective \in IF has_view3d THEN Perspectives ELSE {"PERSP"}
    /\ view_rotation = <<1, 0, 0, 0>>
    /\ view_distance = 10
    /\ statusbar = draw_note_status(notes_properties)
    /\ ret = NothingRun

Next ==
    \/ \E now \in Times : WM_OT_add_note(now, MaxNotes)
    \/ WM_OT_next_note
    \/ WM_OT_previous_note
    \/ WM_OT_delete_note
    \/ \E text \in Texts : EditNote(text)

Spec == Init /\ [][Next]_vars

\* ------------------------------------------------------------- the status-bar summary
\* A text of n characters, all "a" but a newline at position p (none when p = 0).
Fill(n, p) == [i \in 1..n |-> IF i = p THEN "\n" ELSE "a"]

\* Text lengths around the truncation budget, and the short and the long ones.
SummaryLengths == (0..2) \cup (72..MaxTextLen) \cup {ExampleLen}

\* Note texts the user types under SpecSummary.
SummaryTexts ==
    { Fill(n, p) : n \in SummaryLengths, p \in {0, 1, 2, 74, 75, 76, MaxTextLen} }

\* What the operator record holds after n adds to an empty store.
AfterAdds(n) ==
    IF n = 0 THEN NothingRun
    ELSE [op |-> "notes.add_note", result |-> "FINISHED", report |-> "",
          from |-> IF n >= 2 THEN n - 2 ELSE 0, props |-> <<>>,
          before |-> [op |-> IF n >= 2 THEN "notes.add_note" ELSE "",
                      from |-> IF n >= 3 THEN n - 3 ELSE 0]]

\* The store after up to MaxSummaryNotes adds in a scene without viewport or camera.
InitSummary ==
    /\ frame_current = 1
    /\ objects = [n \in ObjectNames |-> "ABSENT"]
    /\ camera = NoCamera
    /\ has_view3d = FALSE
    /\ view_perspective = "PERSP"
    /\ view_rotation = <<1, 0, 0, 0>>
    /\ view_distance = 10
    /\ \E n \in 0..MaxSummaryNotes :
          /\ notes = [k \in 1..n |-> new_note(CHOOSE t \in Times : t.hour = 9)]
          /\ active_note_index = IF n = 0 THEN 0 ELSE n - 1
          /\ ret = AfterAdds(n)
    /\ statusbar = draw_note_status(notes_properties)

NextSummary ==
    \/ \E text \in SummaryTexts : EditNote(text)
    \/ WM_OT_delete_note

SpecSummary == InitSummary /\ [][NextSummary]_vars

\* The summary as the specification words it: newlines replaced first, then the
\* replaced text measured against the budget and cut to it.
ReferenceSummary ==
    IF Len(notes) = 0 THEN << >>
    ELSE LET n == Len(notes)
             text == notes[n].note
             prefix == <<"V">> \o ToDecimal(n) \o <<" ", "-", " ">>
             budget == IF 80 - Len(prefix) > 0 THEN 80 - Len(prefix) ELSE 0
             replaced == ReplaceNewlines(text)
         IN  IF text = <<>> THEN << <<"V">> \o ToDecimal(n) >>
             ELSE IF Len(replaced) > budget
             THEN << prefix \o SubSeq(replaced, 1, budget) \o <<".", ".", ".">> >>
             ELSE << prefix \o replaced >>

\* C7: the status bar shows nothing for an empty store, "V{n}" when the last of n
\* notes has no text, and otherwise "V{n} - " and the text with newlines as spaces,
\* cut to max(0, 80 - len(prefix)) characters with "..." appended iff it is longer;
\* one note of 100 "a" gives "V1 - ", 75 "a" and "...".
C7_SummaryMatchesReference ==
    /\ statusbar = ReferenceSummary
    /\ (Len(notes) = 1 /\ notes[1].note = Fill(100, 0)) =>
           statusbar = << <<"V", "1", " ", "-", " ">> \o Fill(75, 0) \o <<".", ".", ".">> >>
    /\ (Len(notes) = 3 /\ notes[3].note = <<>>) => statusbar = << <<"V", "3">> >>

\* C7's case: the tenth note holds a text of exactly its budget of 74 characters, with
\* a newline, and is shown whole, the newline as a space.
C7_Witness ==
    /\ ret.op = "note"
    /\ Len(notes) = 10
    /\ notes[10].note = Fill(74, 2)
    /\ statusbar = << <<"V", "1", "0", " ", "-", " ", "a", " ">> \o Fill(72, 0) >>

\* ------------------------------------------------------------- the store, in a changing scene
\* What is recorded when the host, not an operator of the addon, changed the scene.
HostEvent == [Returned("host", "", "") EXCEPT !.from = 0]

\* The user orbits or zooms the viewport, or enters or leaves the camera view.
HostNavigatesView(perspective, pose) ==
    /\ has_view3d
    /\ view_perspective' = perspective
    /\ view_rotation' = pose.rot
    /\ view_distance' = pose.dist
    /\ ret' = HostEvent
    /\ UNCHANGED <<store, scene, host, statusbar>>

\* The user closes the 3D viewport area, or opens one again: a new area starts in
\* the host's default view, and a closed one has no view left.
HostTogglesView3d ==
    /\ has_view3d' = ~has_view3d
    /\ view_perspective' = "PERSP"
    /\ view_rotation' = <<1, 0, 0, 0>>
    /\ view_distance' = 10
    /\ ret' = HostEvent
    /\ UNCHANGED <<store, scene, objects, statusbar>>

\* The user moves the timeline to another frame.
HostSetsFrame(frame) ==
    /\ frame_current' = frame
    /\ ret' = HostEvent
    /\ UNCHANGED <<store, camera, viewport, host, statusbar>>

\* The user makes a camera object the scene camera, or clears the scene camera.
HostSetsSceneCamera(name) ==
    /\ IF name = NoCamera THEN TRUE ELSE objects[name] = "CAMERA"
    /\ camera' = name
    /\ ret' = HostEvent
    /\ UNCHANGED <<store, frame_current, viewport, host, statusbar>>

\* The user creates, deletes or replaces the object of this name; a scene camera
\* that is deleted leaves the scene without camera.
HostEditsObject(name, type) ==
    /\ objects' = [objects EXCEPT ![name] = type]
    /\ camera' = IF camera = name /\ type # "CAMERA" THEN NoCamera ELSE camera
    /\ ret' = HostEvent
    /\ UNCHANGED <<store, frame_current, viewport, has_view3d, statusbar>>

InitView ==
    /\ notes = <<>>
    /\ active_note_index = 0
    /\ frame_current = 1
    /\ objects = [n \in ObjectNames |-> IF n = "Cam" THEN "CAMERA" ELSE "ABSENT"]
    /\ camera = "Cam"
    /\ has_view3d = TRUE
    /\ view_perspective = "PERSP"
    /\ view_rotation = <<1, 0, 0, 0>>
    /\ view_distance = 10
    /\ statusbar = draw_note_status(notes_properties)
    /\ ret = [NothingRun EXCEPT !.before = NotRecorded]

NextView ==
    \/ WM_OT_add_note(CHOOSE t \in Times : t.hour = 9, MaxViewNotes)
    \/ WM_OT_next_note
    \/ WM_OT_previous_note
    \/ WM_OT_delete_note
    \/ PanelGotoFrame
    \/ PanelRestoreView
    \/ \E camera_name \in ObjectNames : WM_OT_set_active_camera(camera_name)
    \/ \E perspective \in Perspectives, pose \in Poses : HostNavigatesView(perspective, pose)
    \/ HostTogglesView3d
    \/ \E frame \in Frames : HostSetsFrame(frame)
    \/ \E name \in ObjectNames \cup {NoCamera} : HostSetsSceneCamera(name)
    \/ \E name \in ObjectNames :
          \E type \in IF name = "None" THEN {"ABSENT", "CAMERA"} ELSE ObjectTypes :
             HostEditsObject(name, type)

SpecView == InitView /\ [][NextView]_vars

\* The same program in scenes where no camera named like the sentinel is ever made
\* the scene camera from outside a note: a note whose camera_name is "None" was
\* added while the scene had no camera.
NextSentinel ==
    \/ WM_OT_add_note(CHOOSE t \in Times : t.hour = 9, MaxViewNotes)
    \/ WM_OT_next_note
    \/ WM_OT_previous_note
    \/ WM_OT_delete_note
    \/ PanelGotoFrame
    \/ PanelRestoreView
    \/ WM_OT_set_active_camera("Cam")
    \/ \E perspective \in Perspectives, pose \in Poses : HostNavigatesView(perspective, pose)
    \/ HostTogglesView3d
    \/ \E frame \in Frames : HostSetsFrame(frame)
    \/ \E name \in {"Cam", NoCamera} : HostSetsSceneCamera(name)
    \/ \E name \in ObjectNames :
          \E type \in IF name = "None" THEN {"ABSENT", "CAMERA"} ELSE ObjectTypes :
             HostEditsObject(name, type)

SpecSentinel == InitView /\ [][NextSentinel]_vars

\* ------------------------------------------------------------- claims about the store
\* The step just taken, told by the operator it recorded.
AddStep == ret'.op = "notes.add_note"
NextStep == ret'.op = "notes.next_note"
PreviousStep == ret'.op = "notes.previous_note"
DeleteStep == ret'.op = "notes.delete_note"
EditStep == ret'.op = "note"

\* A note without its text: what identifies it when its text is edited.
Strip(n) == [n EXCEPT !.note = <<>>]

\* C1: the active index is within the notes whenever there are any, and 0 when
\* there are none.
C1_IndexInRange ==
    /\ Len(notes) > 0 => (0 <= active_note_index /\ active_note_index < Len(notes))
    /\ Len(notes) = 0 => active_note_index = 0

\* C1's case: the last note was deleted while active and others remain.
C1_Witness ==
    /\ ret.op = "notes.delete_note"
    /\ ret.from = Len(notes)
    /\ Len(notes) > 0

\* C2: adding a note finishes, appends one note with empty text at the end, leaves
\* every earlier note as and where it was, and makes the new note the active one.
C2_AppendGrowsByOne ==
    [][AddStep =>
         /\ ret'.result = "FINISHED"
         /\ Len(notes') = Len(notes) + 1
         /\ notes'[Len(notes')].note = <<>>
         /\ \A k \in 1..Len(notes) : notes'[k] = notes[k]
         /\ active_note_index' = Len(notes') - 1]_vars

\* C2's case: a note added to a store of two whose active note was not the last,
\* with no 3D viewport and no scene camera.
C2_Witness ==
    /\ ret.op = "notes.add_note"
    /\ Len(notes) = 3
    /\ ret.from = 0
    /\ ~has_view3d
    /\ camera = NoCamera

\* C3: next moves the active index up by one below the last index and previous
\* moves it down by one above 0; at the boundary neither moves it (no wrap-around),
\* and neither changes the notes.
C3_AdvanceMovesByOne ==
    [][/\ NextStep =>
            /\ active_note_index' = IF active_note_index < Len(notes) - 1
                                    THEN active_note_index + 1 ELSE active_note_index
            /\ notes' = notes
       /\ PreviousStep =>
            /\ active_note_index' = IF active_note_index > 0
                                    THEN active_note_index - 1 ELSE active_note_index
            /\ notes' = notes]_vars

\* C3's case: next has moved the cursor from the first of three notes.
C3_Witness ==
    /\ ret.op = "notes.next_note"
    /\ ret.from = 0
    /\ active_note_index = 1
    /\ Len(notes) = 3

\* C4: previous right after a next that started below the last index returns to the
\* index next started from, and next right after a previous that started above 0
\* returns likewise; a pair that does not return began with a boundary no-op.
C4_RoundTrip ==
    [][/\ (ret.op = "notes.next_note" /\ PreviousStep) =>
            /\ ret.from < Len(notes) - 1 => active_note_index' = ret.from
            /\ active_note_index' # ret.from =>
                   (ret.from >= Len(notes) - 1 /\ active_note_index = ret.from)
       /\ (ret.op = "notes.previous_note" /\ NextStep) =>
            /\ ret.from > 0 => active_note_index' = ret.from
            /\ active_note_index' # ret.from =>
                   (ret.from = 0 /\ active_note_index = ret.from)]_vars

\* C4's case: next from the middle of three notes, then previous, back in the middle.
C4_Witness ==
    /\ ret.op = "notes.previous_note"
    /\ ret.before.op = "notes.next_note"
    /\ ret.before.from = 1
    /\ ret.from = 2
    /\ active_note_index = 1
    /\ Len(notes) = 3

\* C5: deleting the active note at index i: if i was the last index and notes remain,
\* the active index becomes the new last index; otherwise it stays i, designating the
\* note that was at i + 1, or 0 when no note remains.
C5_DeleteCursor ==
    [][DeleteStep =>
         LET i == active_note_index
         IN  /\ (i = Len(notes) - 1 /\ Len(notes') > 0) => active_note_index' = Len(notes') - 1
             /\ ~(i = Len(notes) - 1 /\ Len(notes') > 0) =>
                    /\ active_note_index' = i
                    /\ Len(notes') > 0 => notes'[i + 1] = notes[i + 2]
                    /\ Len(notes') = 0 => active_note_index' = 0]_vars

\* C5's case: the first of three notes was deleted; the cursor stays at 0.
C5_Witness ==
    /\ ret.op = "notes.delete_note"
    /\ ret.from = 0
    /\ active_note_index = 0
    /\ Len(notes) = 2
    /\ notes[1] # notes[2]

\* C6: deleting removes exactly the active note and keeps the others, unchanged, in
\* their order; no other step removes or reorders a note.
C6_DeleteRemovesOnlyActive ==
    [][/\ DeleteStep =>
            /\ Len(notes') = Len(notes) - 1
            /\ \A k \in 1..Len(notes') :
                   notes'[k] = IF k <= active_note_index THEN notes[k] ELSE notes[k + 1]
       /\ ~DeleteStep =>
            /\ Len(notes') >= Len(notes)
            /\ \A k \in 1..Len(notes) : Strip(notes'[k]) = Strip(notes[k])]_vars

\* C6's case: the middle one of three different notes was deleted.
C6_Witness ==
    /\ ret.op = "notes.delete_note"
    /\ ret.from = 1
    /\ Len(notes) = 2
    /\ notes[1] # notes[2]
    /\ notes[1].note # <<>>

\* A store of as many notes whose last note has the same text and nothing else in common.
SameLengthAndLastText ==
    [notes |-> [k \in 1..Len(notes) |->
                   IF k = Len(notes) THEN [NoteItem EXCEPT !.note = notes[k].note]
                   ELSE NoteItem],
     active_note_index |-> 0]

\* C8: the status bar shows what the number of notes and the last note's text alone
\* determine; next and previous never change it, and an edit of the active note's
\* text changes it only when the active note is the last one.
C8_SummaryShowsLastNote ==
    /\ [](statusbar = draw_note_status(SameLengthAndLastText))
    /\ [][((NextStep \/ PreviousStep) => statusbar' = statusbar)
          /\ ((EditStep /\ statusbar' # statusbar) => active_note_index = Len(notes) - 1)]_vars

\* C8's case: the active note, not the last one, was edited and moved to; its text
\* differs from the last note's, whose text the status bar goes on showing.
C8_Witness ==
    /\ ret.op = "notes.next_note"
    /\ ret.before.op = "note"
    /\ ret.from = 0
    /\ active_note_index = 1
    /\ Len(notes) = 3
    /\ notes[2].note = <<"a">>
    /\ notes[3].note = <<"b", "\n", "c">>
    /\ statusbar = << <<"V", "3", " ", "-", " ", "b", " ", "c">> >>

\* C9: an edit replaces only the text of the active note: the active index, the
\* number of notes, every other note, and the edited note's creation date, frame and
\* view snapshot stay as they were.
C9_EditChangesOnlyText ==
    [][EditStep =>
         /\ active_note_index' = active_note_index
         /\ Len(notes') = Len(notes)
         /\ \A k \in 1..Len(notes) :
                IF k = active_note_index + 1
                THEN Strip(notes'[k]) = Strip(notes[k])
                ELSE notes'[k] = notes[k]]_vars

\* C9's case: the text of the middle one of three notes was replaced.
C9_Witness ==
    /\ ret.op = "note"
    /\ Len(notes) = 3
    /\ active_note_index = 1
    /\ notes[2].note = <<"a">>
    /\ notes[1].note = <<"b", "\n", "c">>
    /\ notes[2].creation_date # <<>>

\* ------------------------------------------------------------- claims about the view snapshot
\* The snapshot of `n` is a reference to the scene camera, by name or by the sentinel.
IsCameraRef(n) ==
    /\ n.view_type = "CAMERA"
    /\ n.camera_name = IF camera # NoCamera THEN camera ELSE "None"

\* The snapshot of `n` is the viewport's rotation and distance.
IsFreeView(n) ==
    /\ n.view_type = "VIEW"
    /\ n.view_rotation = view_rotation
    /\ n.view_distance = view_distance

\* C10 as claimed: the note added holds a camera reference if and only if the
\* viewport is in camera view, and the viewport's rotation and distance otherwise.
C10_CameraRefIffCameraView ==
    [][AddStep =>
         LET n == notes'[Len(notes')]
         IN  IF has_view3d /\ view_perspective = "CAMERA"
             THEN IsCameraRef(n)
             ELSE IsFreeView(n)]_vars

\* C10, amended: the note added holds a camera reference if and only if the viewport
\* is in camera view or there is no 3D viewport at all, and the viewport's rotation
\* and distance when there is a 3D viewport that is not in camera view.
C10_CameraRefIffCameraViewOrNoViewport ==
    [][AddStep =>
         LET n == notes'[Len(notes')]
         IN  IF ~has_view3d \/ view_perspective = "CAMERA"
             THEN IsCameraRef(n) /\ n.view_type # "VIEW"
             ELSE IsFreeView(n) /\ n.view_type # "CAMERA"]_vars

\* C10's case: a note was added with no 3D viewport and no scene camera, after one
\* added in a custom view, and holds a camera reference with the sentinel.
C10_Witness ==
    /\ ret.op = "notes.add_note"
    /\ Len(notes) = 2
    /\ ~has_view3d
    /\ camera = NoCamera
    /\ notes[2].view_type = "CAMERA"
    /\ notes[2].camera_name = "None"
    /\ notes[1].view_type = "VIEW"
    /\ notes[1].view_rotation = <<0, 1, 0, 0>>

\* ------------------------------------------------------------- claims about restoring the context
SetCameraStep == ret'.op = "notes.set_camera"
RestoreViewStep == ret'.op = "notes.restore_view"
GotoFrameStep == ret'.op = "notes.goto_frame"

\* A navigation that moved the active index, and the note it moved onto.
MovedStep == (NextStep \/ PreviousStep) /\ active_note_index' # active_note_index
Target == notes'[active_note_index' + 1]

\* Where the k-th note is after the step: 0 if the step deleted it.
Survivor(k) ==
    IF DeleteStep
    THEN IF k < active_note_index + 1 THEN k
         ELSE IF k = active_note_index + 1 THEN 0 ELSE k - 1
    ELSE k

\* The viewport after the step shows the custom view stored in `n`.
ViewportShows(n) ==
    /\ view_perspective' # "CAMERA"
    /\ view_rotation' = n.view_rotation
    /\ view_distance' = n.view_distance

C12_CameraRestored ==
    [][(MovedStep /\ Target.view_type = "CAMERA"
                  /\ objects_get(Target.camera_name) = "CAMERA")
         => /\ camera' = Target.camera_name
            /\ has_view3d => view_perspective' = "CAMERA"]_vars

\* C12, amended: with a 3D viewport, a navigation that moves onto a note referring
\* to a camera that exists makes it the scene camera and puts the viewport in
\* camera view; without a 3D viewport it leaves the scene camera and the viewport
\* as they were.
C12_CameraRestoredInViewport ==
    [][(MovedStep /\ Target.view_type = "CAMERA"
                  /\ objects_get(Target.camera_name) = "CAMERA")
         => IF has_view3d
            THEN /\ camera' = Target.camera_name
                 /\ view_perspective' = "CAMERA"
                 /\ UNCHANGED <<view_rotation, view_distance>>
            ELSE UNCHANGED <<camera, viewport>>]_vars

\* C12's case: navigation moved, in a 3D viewport, onto a note referring to camera
\* "Cam" from one holding a custom view, and the scene camera is "Cam" and the
\* viewport in camera view.
C12_Witness ==
    /\ ret.op = "notes.previous_note"
    /\ ret.from = 1
    /\ active_note_index = 0
    /\ has_view3d
    /\ notes[1].view_type = "CAMERA"
    /\ notes[1].camera_name = "Cam"
    /\ notes[2].view_type = "VIEW"
    /\ camera = "Cam"
    /\ view_perspective = "CAMERA"

\* C13 as claimed: a navigation that moves onto a note whose camera no longer
\* exists, and a set-camera for a name that no longer exists, report a warning.
C13_StaleCameraWarns ==
    [][ /\ (MovedStep /\ has_view3d /\ Target.view_type = "CAMERA"
                      /\ objects_get(Target.camera_name) = "ABSENT")
            => ret'.report = "WARNING"
        /\ (SetCameraStep /\ objects_get(ret'.props[1]) = "ABSENT")
            => ret'.report = "WARNING" ]_vars

\* C13, amended: a set-camera for a name that no longer exists reports a warning
\* and is cancelled; a navigation that moves onto a note whose camera no longer
\* exists reports nothing, finishes, and leaves the scene camera and the viewport
\* as they were.
C13_OnlySetCameraWarns ==
    [][ /\ (MovedStep /\ Target.view_type = "CAMERA"
                      /\ objects_get(Target.camera_name) = "ABSENT")
            => /\ ret'.report = ""
               /\ ret'.result = "FINISHED"
               /\ UNCHANGED <<camera, viewport>>
        /\ (SetCameraStep /\ objects_get(ret'.props[1]) = "ABSENT")
            => /\ ret'.report = "WARNING"
               /\ ret'.result = "CANCELLED" ]_vars

\* C13's case: navigation moved onto a note whose camera "Cam" has been removed,
\* in a 3D viewport, and reported nothing.
C13_Witness ==
    /\ ret.op = "notes.next_note"
    /\ ret.from = 0
    /\ active_note_index = 1
    /\ has_view3d
    /\ notes[2].view_type = "CAMERA"
    /\ notes[2].camera_name = "Cam"
    /\ objects["Cam"] = "ABSENT"
    /\ ret.report = ""
    /\ frame_current = notes[2].frame_number

\* C14: whatever the step (add, navigation, delete, edit of the text, restore-view,
\* go-to-frame, set-camera, or a change of the scene), every note that is still in
\* the store afterwards has the creation date, frame and view snapshot it had.
C14_SnapshotWrittenOnce ==
    [][\A k \in 1..Len(notes) :
          Survivor(k) # 0
          => /\ Survivor(k) <= Len(notes')
             /\ Strip(notes'[Survivor(k)]) = Strip(notes[k])]_vars

\* C14's case: a second note was added at another frame, in another view and with
\* another scene camera than the first, and the first still has its own.
C14_Witness ==
    /\ ret.op = "notes.add_note"
    /\ Len(notes) = 2
    /\ notes[1].frame_number # frame_current
    /\ notes[1].view_type = "VIEW"
    /\ notes[1].view_rotation # view_rotation
    /\ notes[2].view_type = "CAMERA"
    /\ notes[2].frame_number = frame_current

\* C15: a navigation that moves onto a note sets the scene frame to the note's,
\* with or without a 3D viewport and whatever the note's snapshot.
C15_FrameRestored ==
    [][MovedStep => frame_current' = Target.frame_number]_vars

\* C15's case: navigation moved, with no 3D viewport, onto a note of another frame
\* whose camera no longer exists, and the scene is at the note's frame.
C15_Witness ==
    /\ ret.op = "notes.next_note"
    /\ ret.from = 0
    /\ active_note_index = 1
    /\ ~has_view3d
    /\ notes[1].frame_number # notes[2].frame_number
    /\ notes[2].view_type = "CAMERA"
    /\ objects_get(notes[2].camera_name) = "ABSENT"
    /\ frame_current = notes[2].frame_number

\* A next on the last note or a previous on the first, or either on no notes.
BoundaryStep ==
    \/ NextStep /\ ~(active_note_index < Len(notes) - 1)
    \/ PreviousStep /\ ~(active_note_index > 0)

\* C16: a next on the last note, a previous on the first and either on an empty
\* store finish without a report and leave the notes, the active index, the scene
\* frame, the scene camera, the viewport and the status bar as they were.
C16_BoundaryNoOp ==
    [][BoundaryStep
         => /\ UNCHANGED <<notes, active_note_index, scene, viewport, statusbar>>
            /\ ret'.result = "FINISHED"
            /\ ret'.report = ""]_vars

\* C16's case: next ran on the last of two notes while the scene was at another
\* frame and the viewport in another view than the note's, and they still are.
C16_Witness ==
    /\ ret.op = "notes.next_note"
    /\ Len(notes) = 2
    /\ ret.from = 1
    /\ active_note_index = 1
    /\ has_view3d
    /\ notes[2].view_type = "VIEW"
    /\ frame_current # notes[2].frame_number
    /\ view_rotation # notes[2].view_rotation
    /\ ret.result = "FINISHED"

\* C17: delete can run exactly when there are notes; on an empty store it is not
\* enabled, so the store stays empty and the active index 0 until a note is added.
C17_DeleteNeedsNotes ==
    /\ (ENABLED WM_OT_delete_note) <=> Len(notes) > 0
    /\ Len(notes) = 0 => active_note_index = 0

\* C17's case: delete has just removed the only note, and the store is empty.
C17_Witness ==
    /\ ret.op = "notes.delete_note"
    /\ Len(notes) = 0
    /\ active_note_index = 0
    /\ ~ENABLED WM_OT_delete_note

\* C18: a set-camera for a name that is not an existing camera object is cancelled
\* with a warning and leaves the scene camera, the viewport, the frame, the notes
\* and the active index as they were; for the name of an existing camera it makes
\* that object the scene camera and finishes.
C18_SetCameraOutcome ==
    [][SetCameraStep
         => IF objects_get(ret'.props[1]) = "CAMERA"
            THEN /\ camera' = ret'.props[1]
                 /\ ret'.result = "FINISHED"
                 /\ ret'.report = ""
                 /\ UNCHANGED store
            ELSE /\ ret'.result = "CANCELLED"
                 /\ ret'.report = "WARNING"
                 /\ UNCHANGED <<store, scene, viewport>>]_vars

\* C18's case: set-camera ran for "Cam", which is an object but not a camera, and
\* was cancelled with a warning.
C18_Witness ==
    /\ ret.op = "notes.set_camera"
    /\ ret.props = <<"Cam">>
    /\ objects["Cam"] = "MESH"
    /\ ret.result = "CANCELLED"
    /\ ret.report = "WARNING"
    /\ camera # "Cam"

\* C20: add and delete leave the scene frame, the scene camera and the viewport as
\* they were; the note active after a delete is not applied.
C20_StoreOpsKeepContext ==
    [][(AddStep \/ DeleteStep) => UNCHANGED <<scene, viewport>>]_vars

\* C20's case: delete removed the first of two notes in a 3D viewport; the note now
\* active is of another frame and another view than the scene and viewport are at.
C20_Witness ==
    /\ ret.op = "notes.delete_note"
    /\ ret.from = 0
    /\ Len(notes) = 1
    /\ active_note_index = 0
    /\ has_view3d
    /\ notes[1].view_type = "VIEW"
    /\ notes[1].frame_number # frame_current
    /\ notes[1].view_rotation # view_rotation

\* C19: a navigation that moves onto a note added while the scene had no camera,
\* whose camera_name is the sentinel "None", leaves the scene camera as it was and
\* does not put the viewport in camera view, whatever objects exist.
C19_SentinelNeverRestored ==
    [][(MovedStep /\ Target.view_type = "CAMERA" /\ Target.camera_name = "None")
         => /\ camera' = camera
            /\ view_perspective' = "CAMERA" => view_perspective = "CAMERA"]_vars
====
